---- MODULE Spec2Model ----
(***************************************************************************)
(* Model of python/tools_numpy.py.                                         *)
(*                                                                         *)
(* The file run as a program (Spec): the interpreter compiles the whole    *)
(* file before it executes its first statement, and lines 245-263 (the     *)
(* shapes of the broadcasting examples) stand outside any string literal,  *)
(* so the run ends in a SyntaxError with no statement executed and no name *)
(* bound.                                                                  *)
(*                                                                         *)
(* The broadcasting rule of lines 204-213 (Spec): a function of two        *)
(* shapes, applied to pairs and triples of shapes.  It is applied to       *)
(* shapes, not by the run of the file.                                     *)
(*                                                                         *)
(* The statements of lines 114-135 taken one by one (Statements), as an    *)
(* interactive interpreter given them one at a time executes them, beside  *)
(* the broadcasting rule applied to triples of shapes.  The rule is        *)
(* applied to shapes, not by a statement: it reads and writes none of the  *)
(* interpreter's state.  This is not a behaviour of the file run as a      *)
(* program.  An ndarray is a window [start, stop) onto a buffer of the     *)
(* heap; a basic slice shares the buffer of the array it is taken from,    *)
(* copy() and boolean selection allocate a buffer of their own.            *)
(***************************************************************************)
EXTENDS Integers, Sequences, FiniteSets

VARIABLES
    pc,         \* where the interpreter is: "start", "SyntaxError", or the
                \* statement to execute next
    error,      \* the exception that ended the run, or None
    heap,       \* buffer id -> contents, a function 0..n-1 -> Int
    arr,        \* the name arr: an ndarray, or None while unbound
    arr_view,   \* the name arr_view
    arr_copy,   \* the name arr_copy
    selected,   \* value of the expression statement arr[arr > 5] (line 127)
    printed,    \* what print(arr) wrote (line 135)
    applied,    \* what the broadcasting rule was applied to: "none", "pair", "triple"
    A, B, C,    \* operand shapes the broadcasting rule is applied to
    AB, BA,     \* broadcast(A, B) and broadcast(B, A)
    AB_C, A_BC  \* broadcast(broadcast(A, B), C) and broadcast(A, broadcast(B, C))

scriptVars == <<heap, arr, arr_view, arr_copy, selected, printed>>
shapeVars == <<applied, A, B, C, AB, BA, AB_C, A_BC>>
runVars == <<pc, error>>
vars == <<pc, error, applied, heap, arr, arr_view, arr_copy, selected, printed,
          A, B, C, AB, BA, AB_C, A_BC>>

None == [none |-> TRUE]

(***************************************************************************)
(* Bounds of the shapes the broadcasting section is applied to.            *)
(***************************************************************************)
MaxLen == 3
MaxExt == 3
MaxLen3 == 2
MaxExt3 == 2

(***************************************************************************)
(* ndarrays over a heap of buffers.                                        *)
(***************************************************************************)

\* np.arange(n): the contents 0, 1, ..., n-1
arange(n) == [i \in 0..(n - 1) |-> i]

\* an ndarray object: elements start..stop-1 of buffer base
NdArray(base, start, stop) == [base |-> base, start |-> start, stop |-> stop]

\* len(a)
Size(a) == a.stop - a.start

\* the elements of a, read through its window
Values(h, a) == [i \in 0..(Size(a) - 1) |-> h[a.base][a.start + i]]

\* a[lo:hi] as an expression: a view, i.e. a window onto the same buffer
SliceView(a, lo, hi) == NdArray(a.base, a.start + lo, a.start + hi)

\* SliceAssign with the upper index taken as included
SliceAssignInclusive(h, a, lo, hi, v) ==
    [h EXCEPT ![a.base] =
        [j \in DOMAIN h[a.base] |->
            IF a.start + lo <= j /\ j <= a.start + hi THEN v ELSE h[a.base][j]]]

\* a[lo:hi] = v: the heap after writing the scalar v through the window
SliceAssign(h, a, lo, hi, v) ==
    [h EXCEPT ![a.base] =
        [j \in DOMAIN h[a.base] |->
            IF a.start + lo <= j /\ j < a.start + hi THEN v ELSE h[a.base][j]]]

\* a.copy(): a fresh buffer nb holding the elements of a
CopyBuffer(h, a, nb) == [x \in DOMAIN h \cup {nb} |-> IF x = nb THEN Values(h, a) ELSE h[x]]

\* a > t: the boolean mask
GreaterMask(h, a, t) == [i \in 0..(Size(a) - 1) |-> Values(h, a)[i] > t]

RECURSIVE Compress(_, _, _)
\* the elements of vals at which mask holds, in order, from index i on
Compress(vals, mask, i) ==
    IF i \notin DOMAIN vals THEN <<>>
    ELSE IF mask[i] THEN <<vals[i]>> \o Compress(vals, mask, i + 1)
    ELSE Compress(vals, mask, i + 1)

\* a[mask] as an expression: the selected elements, in a buffer of their own
MaskSelect(h, a, mask) == Compress(Values(h, a), mask, 0)

\* MaskAssign writing into the copy the selection returns: the heap is as before
MaskAssignToCopy(h, a, mask, v) == h

\* a[mask] = v: the heap after writing v at the positions where mask holds
MaskAssign(h, a, mask, v) ==
    [h EXCEPT ![a.base] =
        [j \in DOMAIN h[a.base] |->
            IF a.start <= j /\ j < a.stop /\ mask[j - a.start] THEN v ELSE h[a.base][j]]]

(***************************************************************************)
(* The statements of lines 114-135, one by one.                            *)
(***************************************************************************)

\* arr = np.arange(10)
L114 ==
    /\ pc = "L114"
    /\ heap' = [x \in {"b0"} |-> arange(10)]
    /\ arr' = NdArray("b0", 0, 10)
    /\ pc' = "L116"
    /\ UNCHANGED <<arr_view, arr_copy, selected, printed>>
    /\ UNCHANGED <<error, shapeVars>>

\* arr[5:8] (line 115, an expression without effect); arr[5:8] = 12
L116 ==
    /\ pc = "L116"
    /\ heap' = SliceAssign(heap, arr, 5, 8, 12)
    /\ pc' = "L117"
    /\ UNCHANGED <<arr, arr_view, arr_copy, selected, printed>>
    /\ UNCHANGED <<error, shapeVars>>

\* arr_view = arr[5:8]
L117 ==
    /\ pc = "L117"
    /\ arr_view' = SliceView(arr, 5, 8)
    /\ pc' = "L118"
    /\ UNCHANGED <<heap, arr, arr_copy, selected, printed>>
    /\ UNCHANGED <<error, shapeVars>>

\* arr_view[:] = 13
L118 ==
    /\ pc = "L118"
    /\ heap' = SliceAssign(heap, arr_view, 0, Size(arr_view), 13)
    /\ pc' = "L119"
    /\ UNCHANGED <<arr, arr_view, arr_copy, selected, printed>>
    /\ UNCHANGED <<error, shapeVars>>

\* arr_copy = arr[5:8].copy()
L119 ==
    /\ pc = "L119"
    /\ heap' = CopyBuffer(heap, SliceView(arr, 5, 8), "b1")
    /\ arr_copy' = NdArray("b1", 0, Size(SliceView(arr, 5, 8)))
    /\ pc' = "L120"
    /\ UNCHANGED <<arr, arr_view, selected, printed>>
    /\ UNCHANGED <<error, shapeVars>>

\* arr_copy[:] = 14
L120 ==
    /\ pc = "L120"
    /\ heap' = SliceAssign(heap, arr_copy, 0, Size(arr_copy), 14)
    /\ pc' = "L127"
    /\ UNCHANGED <<arr, arr_view, arr_copy, selected, printed>>
    /\ UNCHANGED <<error, shapeVars>>

\* arr[arr > 5]
L127 ==
    /\ pc = "L127"
    /\ selected' = MaskSelect(heap, arr, GreaterMask(heap, arr, 5))
    /\ pc' = "L134"
    /\ UNCHANGED <<heap, arr, arr_view, arr_copy, printed>>
    /\ UNCHANGED <<error, shapeVars>>

\* arr[arr > 5] = 0
L134 ==
    /\ pc = "L134"
    /\ heap' = MaskAssign(heap, arr, GreaterMask(heap, arr, 5), 0)
    /\ pc' = "L135"
    /\ UNCHANGED <<arr, arr_view, arr_copy, selected, printed>>
    /\ UNCHANGED <<error, shapeVars>>

\* print(arr)
L135 ==
    /\ pc = "L135"
    /\ printed' = Values(heap, arr)
    /\ pc' = "L138"
    /\ UNCHANGED <<heap, arr, arr_view, arr_copy, selected>>
    /\ UNCHANGED <<error, shapeVars>>

(***************************************************************************)
(* The broadcasting rule, lines 189-263.                                   *)
(***************************************************************************)

\* the shapes with at most maxLen axes of extent 0..maxExt
Shapes(maxLen, maxExt) == UNION {[1..n -> 0..maxExt] : n \in 0..maxLen}

\* the operand shapes the script and its docstrings show (lines 222-263)
DocShapes ==
    {<<4, 3>>, <<3>>, <<5, 4>>, <<1>>, <<4>>,
     <<15, 3, 5>>, <<15, 1, 5>>, <<3, 5>>, <<3, 1>>}

\* the operands of the failing example, broadcast((3,4), (2,4))
FailingExampleShapes == {<<3, 4>>, <<2, 4>>}

PairShapes == Shapes(MaxLen, MaxExt) \cup DocShapes \cup FailingExampleShapes
TripleShapes == Shapes(MaxLen3, MaxExt3)

Max(x, y) == IF x >= y THEN x ELSE y

\* the result of a successful broadcast
Ok(shape) == [ok |-> TRUE, shape |-> shape]

\* the failure: both input shapes and the offending axis
IncompatibleShapesError(SA, SB, axis) ==
    [ok |-> FALSE, shapeA |-> SA, shapeB |-> SB, axis |-> axis]

\* AxisIndex counting from the trailing axis
AxisIndexFromTrailing(n, k) == k - 1

\* the index, among n axes counted from the leading one (axis 0), of the
\* k-th axis counted from the trailing one (k = 1)
AxisIndex(n, k) == n - k

\* DimAt with a missing axis counted as empty instead of 1
DimAtNoPad(S, k) == IF k <= Len(S) THEN S[Len(S) - k + 1] ELSE 0

\* the extent of the k-th axis of S counted from the trailing one; a shape
\* that has run out of dimensions counts as 1 (line 213)
DimAt(S, k) == IF k <= Len(S) THEN S[Len(S) - k + 1] ELSE 1

\* Compatible that only looks for a 1 in the first operand
CompatibleOneSided(da, db) == da = db \/ da = 1

\* Compatible that forgets equal dimensions
CompatibleOnlyOnes(da, db) == da = 1 \/ db = 1

\* two dimensions go together when they are equal or one of them is 1
\* (lines 209-211)
Compatible(da, db) == da = db \/ da = 1 \/ db = 1

\* BroadcastDim that never stretches the first operand
BroadcastDimFirst(da, db) == da

\* BroadcastDim that takes "the largest one" of the two dimensions
BroadcastDimLargest(da, db) == IF da >= db THEN da ELSE db

\* the dimension of the result: the common one, or the one the operand of
\* dimension 1 is stretched to (lines 209-211)
BroadcastDim(da, db) ==
    IF da = db THEN da
    ELSE IF da = 1 THEN db
    ELSE da

RECURSIVE Scan(_, _, _, _)
\* compare the dimensions from the k-th trailing axis backward (line 207);
\* acc holds the result's axes after the k-th
Scan(SA, SB, k, acc) ==
    LET n == Max(Len(SA), Len(SB)) IN
    IF k > n THEN Ok(acc)
    ELSE LET da == DimAt(SA, k)
             db == DimAt(SB, k)
         IN  IF Compatible(da, db)
             THEN Scan(SA, SB, k + 1, <<BroadcastDim(da, db)>> \o acc)
             ELSE IncompatibleShapesError(SA, SB, AxisIndex(n, k))

\* the shape of an elementwise operation on operands of shapes SA and SB
broadcast(SA, SB) == Scan(SA, SB, 1, <<>>)

\* (x + y) + z: a failure of the inner operation is the failure of the whole
broadcastLeft(r, SC) == IF r.ok THEN broadcast(r.shape, SC) ELSE r

\* x + (y + z)
broadcastRight(SA, r) == IF r.ok THEN broadcast(SA, r.shape) ELSE r

\* the rule applied to operands of any two shapes, in both orders
BroadcastPair ==
    /\ applied = "none"
    /\ \E SA \in PairShapes, SB \in PairShapes :
        /\ A' = SA
        /\ B' = SB
        /\ AB' = broadcast(SA, SB)
        /\ BA' = broadcast(SB, SA)
    /\ applied' = "pair"
    /\ UNCHANGED <<C, AB_C, A_BC>>
    /\ UNCHANGED <<runVars, scriptVars>>

\* the rule applied twice to operands of any three shapes, in both groupings
BroadcastTriple ==
    /\ applied = "none"
    /\ \E SA \in TripleShapes, SB \in TripleShapes, SC \in TripleShapes :
        /\ A' = SA
        /\ B' = SB
        /\ C' = SC
        /\ AB_C' = broadcastLeft(broadcast(SA, SB), SC)
        /\ A_BC' = broadcastRight(SA, broadcast(SB, SC))
    /\ applied' = "triple"
    /\ UNCHANGED <<AB, BA>>
    /\ UNCHANGED <<runVars, scriptVars>>

(***************************************************************************)
(* The file run as a program.                                              *)
(***************************************************************************)

\* the first line of the file that is no Python: "A      (2d array):  5 x 4",
\* after the docstring that ends on line 243
FirstBadLine == 245

\* python tools_numpy.py: the file is compiled as a whole, the compiler
\* stops at the first line it cannot parse, and nothing is executed
Compile ==
    /\ pc = "start"
    /\ pc' = "SyntaxError"
    /\ error' = [type |-> "SyntaxError", line |-> FirstBadLine]
    /\ UNCHANGED scriptVars
    /\ UNCHANGED shapeVars

\* no statement executed, no name bound, the rule applied to nothing
Unbound ==
    /\ error = None
    /\ heap = << >>
    /\ arr = None
    /\ arr_view = None
    /\ arr_copy = None
    /\ selected = None
    /\ printed = None
    /\ applied = "none"
    /\ A = None /\ B = None /\ C = None
    /\ AB = None /\ BA = None /\ AB_C = None /\ A_BC = None

Init == pc = "start" /\ Unbound

Next == Compile \/ BroadcastPair \/ BroadcastTriple

Spec == Init /\ [][Next]_vars

\* the statements of lines 114-135 given one at a time to an interactive
\* interpreter; the broadcasting rule applied to shapes, as in Spec
InitStatements == pc = "L114" /\ Unbound

NextStatements ==
    \/ L114 \/ L116 \/ L117 \/ L118 \/ L119 \/ L120 \/ L127 \/ L134 \/ L135
    \/ BroadcastTriple

Statements == InitStatements /\ [][NextStatements]_vars

(***************************************************************************)
(* Properties.                                                             *)
(***************************************************************************)

\* shape S left-padded with extent 1 to n axes
Padded(S, n) == [i \in 1..n |-> IF i <= n - Len(S) THEN 1 ELSE S[i - (n - Len(S))]]

\* the array with elements seq[1], seq[2], ... at indices 0, 1, ...
Arr0(seq) == [i \in 0..(Len(seq) - 1) |-> seq[i + 1]]

\* C1: broadcast(A, B) succeeds exactly when at every position of the
\* left-padded shapes the extents are equal or one of them is 1; the result
\* then has max(lenA, lenB) axes, each da when da = db, db when da = 1 and da
\* when db = 1; the five documented examples give the documented shapes.
C1_BroadcastRule ==
    applied = "pair" =>
        LET n == Max(Len(A), Len(B))
            pa == Padded(A, n)
            pb == Padded(B, n)
        IN  /\ AB.ok <=> \A i \in 1..n : pa[i] = pb[i] \/ pa[i] = 1 \/ pb[i] = 1
            /\ AB.ok =>
                /\ Len(AB.shape) = n
                /\ \A i \in 1..n :
                    /\ pa[i] = pb[i] => AB.shape[i] = pa[i]
                    /\ pa[i] = 1 => AB.shape[i] = pb[i]
                    /\ pb[i] = 1 => AB.shape[i] = pa[i]
            /\ (A = <<5, 4>> /\ B = <<1>>) => (AB.ok /\ AB.shape = <<5, 4>>)
            /\ (A = <<5, 4>> /\ B = <<4>>) => (AB.ok /\ AB.shape = <<5, 4>>)
            /\ (A = <<15, 3, 5>> /\ B = <<15, 1, 5>>) => (AB.ok /\ AB.shape = <<15, 3, 5>>)
            /\ (A = <<15, 3, 5>> /\ B = <<3, 5>>) => (AB.ok /\ AB.shape = <<15, 3, 5>>)
            /\ (A = <<15, 3, 5>> /\ B = <<3, 1>>) => (AB.ok /\ AB.shape = <<15, 3, 5>>)

C1_Witness ==
    /\ applied = "pair"
    /\ A = <<15, 3, 5>> /\ B = <<3, 1>>
    /\ AB.ok /\ AB.shape = <<15, 3, 5>>

\* C2: a failed broadcast(A, B) carries A and B as passed and the index of
\* the rightmost position of the left-padded shapes at which the extents
\* differ and neither is 1; broadcast((3,4), (2,4)) fails at axis 0.
C2_ErrorPayload ==
    (applied = "pair" /\ ~AB.ok) =>
        LET n == Max(Len(A), Len(B))
            pa == Padded(A, n)
            pb == Padded(B, n)
            bad == {i \in 1..n : pa[i] # pb[i] /\ pa[i] # 1 /\ pb[i] # 1}
        IN  /\ AB.shapeA = A
            /\ AB.shapeB = B
            /\ AB.axis + 1 \in bad
            /\ \A j \in bad : j <= AB.axis + 1
            /\ (A = <<3, 4>> /\ B = <<2, 4>>) => AB.axis = 0

C2_Witness ==
    /\ applied = "pair"
    /\ A = <<3, 4>> /\ B = <<2, 4>>
    /\ ~AB.ok /\ AB.axis = 0 /\ AB.shapeA = <<3, 4>> /\ AB.shapeB = <<2, 4>>

\* C3 as stated: every axis of a successful result is at least the larger of
\* the two left-padded input extents at its position, extents 0 included.
C3_AtLeastLarger ==
    (applied = "pair" /\ AB.ok) =>
        LET n == Max(Len(A), Len(B))
            pa == Padded(A, n)
            pb == Padded(B, n)
        IN  \A i \in 1..n : AB.shape[i] >= Max(pa[i], pb[i])

\* C3, amended: every axis of a successful result is at least the larger of
\* the two left-padded input extents at its position, except where one
\* extent is 0 and the other is 1: there the result extent is 0.
C3_AtLeastLargerUnlessEmpty ==
    (applied = "pair" /\ AB.ok) =>
        LET n == Max(Len(A), Len(B))
            pa == Padded(A, n)
            pb == Padded(B, n)
        IN  \A i \in 1..n :
                IF {pa[i], pb[i]} = {0, 1}
                THEN AB.shape[i] = 0
                ELSE AB.shape[i] >= Max(pa[i], pb[i])

C3_Witness ==
    /\ applied = "pair"
    /\ A = <<2, 0>> /\ B = <<1>>
    /\ AB.ok /\ AB.shape = <<2, 0>>

\* C4: broadcast(A, B) succeeds iff broadcast(B, A) does, and then the two
\* result shapes are equal.
C4_Commutative ==
    applied = "pair" =>
        /\ AB.ok <=> BA.ok
        /\ AB.ok => AB.shape = BA.shape

C4_Witness ==
    /\ applied = "pair"
    /\ A = <<2, 1>> /\ B = <<0, 1, 2>>
    /\ AB.ok /\ BA.ok /\ AB.shape = <<0, 2, 2>> /\ BA.shape = <<0, 2, 2>>

\* C5: for every shape A, broadcast(A, ()) and broadcast((), A) succeed and
\* return A.
C5_ScalarIdentity ==
    (applied = "pair" /\ B = <<>>) =>
        /\ AB.ok /\ AB.shape = A
        /\ BA.ok /\ BA.shape = A

C5_Witness ==
    /\ applied = "pair"
    /\ A = <<0, 1, 2>> /\ B = <<>>
    /\ AB.ok /\ AB.shape = <<0, 1, 2>>
    /\ BA.ok /\ BA.shape = <<0, 1, 2>>

\* C6: for every shape A, broadcast(A, A) succeeds and equals A.
C6_Idempotent ==
    (applied = "pair" /\ A = B) => (AB.ok /\ AB.shape = A)

C6_Witness ==
    /\ applied = "pair"
    /\ A = <<0, 1, 2>> /\ B = <<0, 1, 2>>
    /\ AB.ok /\ AB.shape = <<0, 1, 2>>

\* C7: where one extent is 0 and the other (real or padded) is 1 the result
\* extent is 0; where one extent is 0 and the other is greater than 1 the
\* broadcast fails.
C7_ZeroLengthAxes ==
    applied = "pair" =>
        LET n == Max(Len(A), Len(B))
            pa == Padded(A, n)
            pb == Padded(B, n)
        IN  /\ (\E i \in 1..n : \/ pa[i] = 0 /\ pb[i] > 1
                                \/ pb[i] = 0 /\ pa[i] > 1) => ~AB.ok
            /\ AB.ok => \A i \in 1..n :
                    ((pa[i] = 0 /\ pb[i] = 1) \/ (pa[i] = 1 /\ pb[i] = 0))
                        => AB.shape[i] = 0

C7_Witness ==
    /\ applied = "pair"
    /\ A = <<0, 2, 0>> /\ B = <<1, 1>>
    /\ AB.ok /\ AB.shape = <<0, 2, 0>>

\* C8: once arr_view = arr[5:8] is made, the write through arr_view (line
\* 118) sets elements 5..7 of arr to the written value and leaves every other
\* element of arr as it was; once arr_copy = arr[5:8].copy() is made, the
\* write through arr_copy (line 120) leaves arr and arr_view as they were;
\* after line 120 arr is [0,1,2,3,4,13,13,13,8,9] and arr_copy is [14,14,14].
C8_ViewAliasesCopyDoesNot ==
    [][ /\ (pc = "L118" /\ pc' = "L119") =>
            /\ arr_view = SliceView(arr, 5, 8)
            /\ Size(arr') = 10
            /\ \A i \in 0..9 :
                Values(heap', arr')[i] = IF i \in 5..7 THEN 13 ELSE Values(heap, arr)[i]
            /\ Values(heap', arr_view') = Arr0(<<13, 13, 13>>)
        /\ (pc = "L120" /\ pc' = "L127") =>
            /\ Values(heap', arr') = Values(heap, arr)
            /\ Values(heap', arr_view') = Values(heap, arr_view)
            /\ Values(heap', arr_copy') = Arr0(<<14, 14, 14>>)
            /\ Values(heap', arr') = Arr0(<<0, 1, 2, 3, 4, 13, 13, 13, 8, 9>>)
      ]_vars

C8_Witness ==
    /\ pc = "L127"
    /\ Values(heap, arr) = Arr0(<<0, 1, 2, 3, 4, 13, 13, 13, 8, 9>>)
    /\ Values(heap, arr_view) = Arr0(<<13, 13, 13>>)
    /\ Values(heap, arr_copy) = Arr0(<<14, 14, 14>>)

\* C9: arr[arr > 5] = 0 (line 134) sets to 0 every element of arr that was
\* greater than 5 and leaves the other elements and the length as they were;
\* after lines 114-134 arr is [0,1,2,3,4,0,0,0,0,0] and holds no element
\* above 5.
C9_BooleanAssignment ==
    [][ (pc = "L134" /\ pc' = "L135") =>
            /\ Size(arr') = Size(arr)
            /\ \A i \in 0..(Size(arr) - 1) :
                Values(heap', arr')[i] =
                    IF Values(heap, arr)[i] > 5 THEN 0 ELSE Values(heap, arr)[i]
            /\ Values(heap', arr') = Arr0(<<0, 1, 2, 3, 4, 0, 0, 0, 0, 0>>)
            /\ \A i \in 0..9 : Values(heap', arr')[i] <= 5
      ]_vars

C9_Witness ==
    /\ pc = "L135"
    /\ selected = <<13, 13, 13, 8, 9>>
    /\ Values(heap, arr) = Arr0(<<0, 1, 2, 3, 4, 0, 0, 0, 0, 0>>)

\* C10: broadcast(broadcast(A, B), C) and broadcast(A, broadcast(B, C)),
\* a failure of the inner broadcast being the failure of the whole, both
\* fail or both succeed with the same shape.
C10_Associative ==
    applied = "triple" =>
        /\ AB_C.ok <=> A_BC.ok
        /\ AB_C.ok => AB_C.shape = A_BC.shape

C10_Witness ==
    /\ applied = "triple"
    /\ A = <<2, 1>> /\ B = <<>> /\ C = <<0>>
    /\ AB_C.ok /\ A_BC.ok /\ AB_C.shape = <<2, 0>> /\ A_BC.shape = <<2, 0>>
====
